---- MODULE Spec2Model ----
(***************************************************************************)
(* pledge()/unveil() polyfill for macOS (XNU).                             *)
(*                                                                         *)
(* Two programs of the repository are modelled, selected by `program`:     *)
(*   "xnu"    libc/calls/pledge-xnu.c, the minimal implementation that is  *)
(*            compiled: sys_pledge_xnu, apply_sandbox_xnu,                 *)
(*            generate_sbpl_stdio over a three-field thread-local state.   *)
(*   "design" the listing of docs/pledge-unveil-macos-polyfill.md: the     *)
(*            full state with unveil paths, sys_pledge_xnu,                *)
(*            sys_unveil_xnu, apply_sandbox_xnu, generate_sbpl_profile.    *)
(* Definitions of the listing carry the suffix _doc where the name is      *)
(* already taken by the C file.                                            *)
(*                                                                         *)
(* A promise mask (unsigned long, inverted: bit set = promise denied) is   *)
(* the set of the promise names whose bit is set; bits that name no        *)
(* promise are never read by the code and are left out.                    *)
(* A C string is a record [null, s]: s is its sequence of characters, a    *)
(* path being a sequence of tokens ("/" and names).                        *)
(***************************************************************************)
EXTENDS Integers, Sequences, FiniteSets, TLC

VARIABLES
  program,          \* which of the two programs runs
  available,        \* sandbox_init_with_parameters resolved (weak import)?
  XnuSandboxState,  \* the _Thread_local struct, one copy per thread
  ret,              \* the last completed call and what it returned
  pre,              \* the calling thread's struct before that call
  hist,             \* per thread: primitive activations, first apply() result
  ncalls,           \* calls made so far in the process
  gen               \* the generator run on its own: what it returned

vars ==
  <<program, available, XnuSandboxState, ret, pre, hist, ncalls, gen>>

\* ---------------------------------------------------------------- bounds
NumThreads == 2
MaxCalls == 3
\* capacity of paths[] (256 in the listing), scaled to the model
MaxPaths == 2

Threads == 1..NumThreads

\* The listing's state is _Thread_local like the C file's; the model
\* follows the listing in one execution context.
Contexts == IF program = "xnu" THEN Threads ELSE {1}

\* ------------------------------------------------------------- constants
SBPL_MAX_SIZE == 4096
SBPL_MAX_SIZE_doc == 16384

\* ---------------------------------------------------------------- strings
NULL == [null |-> TRUE, s |-> <<>>]
Str(x) == [null |-> FALSE, s |-> x]

\* Promise identifiers in enumeration order (the order of kPledgeToSBPL).
PromiseNames ==
  <<"stdio", "rpath", "wpath", "cpath", "dpath", "flock", "fattr", "inet",
    "anet", "unix", "dns", "tty", "recvfd", "sendfd", "proc", "exec", "id",
    "unveil", "settime", "prot_exec", "vminfo", "tmppath", "chown">>

AllPromises == {PromiseNames[i] : i \in 1..Len(PromiseNames)}

\* -1UL: every bit set, every promise denied
AllDenied == AllPromises

\* ~promises & (1UL << PROMISE_x): the promise is allowed
Allowed(promises, x) == x \notin promises

\* masks the callers pass
MaskInputs ==
  { AllDenied \ {"stdio"},
    AllDenied \ {"stdio", "rpath"},
    AllDenied,
    {} }

\* what sandbox_init_with_parameters can do when it is called
PrimOutcomes == {"ok", "fail_msg", "fail_nomsg"}

\* the text the primitive leaves in *errorbuf
PrimMessage == "sandbox_init: profile rejected"

\* -------------------------------------------------------- results of calls
NoCall ==
  [op |-> "none", t |-> 0, arg |-> NULL, rc |-> 0, err |-> "none",
   prim |-> "none", invoked |-> FALSE, activated |-> FALSE, applies |-> 0,
   apply_rc |-> 0, apply_err |-> "none", signal |-> "none",
   handed |-> <<>>, crashed |-> FALSE]

\* the result of apply_sandbox_xnu: the struct it leaves, its return value
\* and errno, what the primitive did ("none": it was not called), the line
\* it logged, the profile it handed over
A(s, rc, err, prim, signal, handed) ==
  [state |-> s, rc |-> rc, err |-> err, prim |-> prim,
   invoked |-> prim # "none", activated |-> prim = "ok",
   signal |-> signal, handed |-> handed, crashed |-> FALSE]

\* `return rc;` of an entry point that did not run apply_sandbox_xnu
Plain(s, rc, err) ==
  [state |-> s, rc |-> rc, err |-> err, prim |-> "none", invoked |-> FALSE,
   activated |-> FALSE, applies |-> 0, apply_rc |-> 0, apply_err |-> "none",
   signal |-> "none", handed |-> <<>>, crashed |-> FALSE]

\* `return apply_sandbox_xnu();`
ReturnApply(a) ==
  [state |-> a.state, rc |-> a.rc, err |-> a.err, prim |-> a.prim,
   invoked |-> a.invoked,
   activated |-> a.activated, applies |-> 1, apply_rc |-> a.rc,
   apply_err |-> a.err, signal |-> a.signal, handed |-> a.handed,
   crashed |-> a.crashed]

\* ------------------------------------------------------ profile fragments
\* A profile is the sequence of the fragments written to the buffer; a
\* fragment is [k |-> its kind, p |-> the path substituted for %s].
Frag(k) == [k |-> k, p |-> <<>>]
PathFrag(k, p) == [k |-> k, p |-> p]

\* strlen of a path token
TokLen(tok) == IF tok = "/" THEN 1 ELSE IF tok = "LONG" THEN 1000 ELSE 3

RECURSIVE StrLen(_)
StrLen(p) == IF p = <<>> THEN 0 ELSE TokLen(Head(p)) + StrLen(Tail(p))

\* length of the literal text of a fragment, %s left out
TemplateLen(k) ==
  CASE k = "header_stdio" -> 159
    [] k = "stdio_min" -> 219
    [] k = "syscalls_min" -> 201
    [] k = "memory_min" -> 50
    [] k = "header" -> 151
    [] k = "pledge_comment" -> 19
    [] k = "allow_default" -> 17
    [] k = "newline" -> 1
    [] k = "unveil_comment" -> 34
    [] k = "read" -> 32
    [] k = "write" -> 33
    [] k = "execute" -> 76
    [] k = "create" -> 142
    [] k = "deny_files" -> 84
    [] k = "stdio" -> 235
    [] k = "rpath" -> 46
    [] k = "wpath" -> 118
    [] k = "cpath" -> 90
    [] k = "dpath" -> 71
    [] k = "flock" -> 18
    [] k = "fattr" -> 99
    [] k = "inet" -> 92
    [] k = "anet" -> 45
    [] k = "unix" -> 93
    [] k = "dns" -> 289
    [] k = "tty" -> 86
    [] k = "recvfd" -> 32
    [] k = "sendfd" -> 33
    [] k = "proc" -> 108
    [] k = "exec" -> 49
    [] k = "id" -> 43
    [] k = "unveil" -> 0
    [] k = "settime" -> 24
    [] k = "prot_exec" -> 93
    [] k = "vminfo" -> 125
    [] k = "tmppath" -> 89
    [] k = "chown" -> 25
    [] OTHER -> 0

\* how many %s the fragment has
Holes(k) ==
  CASE k \in {"read", "write"} -> 1
    [] k = "execute" -> 2
    [] k = "create" -> 4
    [] OTHER -> 0

FragLen(f) == TemplateLen(f.k) + Holes(f.k) * StrLen(f.p)

RECURSIVE TextLen(_)
TextLen(text) ==
  IF text = <<>> THEN 0 ELSE FragLen(Head(text)) + TextLen(Tail(text))

\* ===================================================== libc/calls/pledge-xnu.c
XnuSandboxState0 ==
  [promises |-> AllDenied, pledge_called |-> FALSE, sandbox_active |-> FALSE]

\* generate_sbpl_stdio that adds the file-read* rule of PROMISE_RPATH
generate_sbpl_stdio_rpath(outsize) ==
  LET text == <<Frag("header_stdio"), Frag("stdio_min"), Frag("rpath"),
                Frag("syscalls_min"), Frag("memory_min")>>
      pos == TextLen(text)
  IN IF pos >= outsize THEN [rc |-> -1, text |-> text]
     ELSE [rc |-> pos, text |-> text]

\* generate_sbpl_stdio whose text begins with the stdio rules
generate_sbpl_stdio_noheader(outsize) ==
  LET text == <<Frag("stdio_min"), Frag("syscalls_min"),
                Frag("memory_min")>>
      pos == TextLen(text)
  IN IF pos >= outsize THEN [rc |-> -1, text |-> text]
     ELSE [rc |-> pos, text |-> text]

\* one snprintf of the whole text, then the size check
generate_sbpl_stdio(outsize) ==
  LET text == <<Frag("header_stdio"), Frag("stdio_min"),
                Frag("syscalls_min"), Frag("memory_min")>>
      pos == TextLen(text)
  IN IF pos >= outsize THEN [rc |-> -1, text |-> text]
     ELSE [rc |-> pos, text |-> text]

\* apply_sandbox_xnu failing open: a rejected profile reported as success
apply_sandbox_xnu_failopen(s, out) ==
  IF ~available
  THEN A(s, 0, "none", "none", "not available", <<>>)
  ELSE IF s.sandbox_active
  THEN A(s, 0, "none", "none", "none", <<>>)
  ELSE IF ~Allowed(s.promises, "stdio")
  THEN A(s, -1, "ENOSYS", "none", "only stdio supported", <<>>)
  ELSE LET g == generate_sbpl_stdio(SBPL_MAX_SIZE) IN
    IF g.rc < 0
    THEN A(s, -1, "ENOMEM", "none", "generation failed", <<>>)
    ELSE IF out # "ok"
    THEN A(s, 0, "none", out, "none", g.text)
    ELSE A([s EXCEPT !.sandbox_active = TRUE], 0, "none", out, "applied",
           g.text)

\* apply_sandbox_xnu that reports the unresolved weak import as ENOSYS
apply_sandbox_xnu_enosys(s, out) ==
  IF ~available
  THEN A(s, -1, "ENOSYS", "none", "not available", <<>>)
  ELSE IF s.sandbox_active
  THEN A(s, 0, "none", "none", "none", <<>>)
  ELSE IF ~Allowed(s.promises, "stdio")
  THEN A(s, -1, "ENOSYS", "none", "only stdio supported", <<>>)
  ELSE LET g == generate_sbpl_stdio(SBPL_MAX_SIZE) IN
    IF g.rc < 0
    THEN A(s, -1, "ENOMEM", "none", "generation failed", <<>>)
    ELSE IF out # "ok"
    THEN A(s, -1, "none", out,
           IF out = "fail_msg" THEN "sandbox_init failed" ELSE "none",
           g.text)
    ELSE A([s EXCEPT !.sandbox_active = TRUE], 0, "none", out, "applied",
           g.text)

\* apply_sandbox_xnu without the test of PROMISE_STDIO
apply_sandbox_xnu_anymask(s, out) ==
  IF ~available
  THEN A(s, 0, "none", "none", "not available", <<>>)
  ELSE IF s.sandbox_active
  THEN A(s, 0, "none", "none", "none", <<>>)
  ELSE LET g == generate_sbpl_stdio(SBPL_MAX_SIZE) IN
    IF g.rc < 0
    THEN A(s, -1, "ENOMEM", "none", "generation failed", <<>>)
    ELSE IF out # "ok"
    THEN A(s, -1, "none", out,
           IF out = "fail_msg" THEN "sandbox_init failed" ELSE "none",
           g.text)
    ELSE A([s EXCEPT !.sandbox_active = TRUE], 0, "none", out, "applied",
           g.text)

\* out: what the primitive does if it is called
apply_sandbox_xnu(s, out) ==
  IF ~available
  THEN A(s, 0, "none", "none", "not available", <<>>)
  ELSE IF s.sandbox_active
  THEN A(s, 0, "none", "none", "none", <<>>)
  ELSE IF ~Allowed(s.promises, "stdio")
  THEN A(s, -1, "ENOSYS", "none", "only stdio supported", <<>>)
  ELSE LET g == generate_sbpl_stdio(SBPL_MAX_SIZE) IN
    IF g.rc < 0
    THEN A(s, -1, "ENOMEM", "none", "generation failed", <<>>)
    ELSE IF out # "ok"
    THEN \* kprintf of the message, then sandbox_free_error: nothing is kept
         A(s, -1, "none", out,
           IF out = "fail_msg" THEN "sandbox_init failed" ELSE "none",
           g.text)
    ELSE A([s EXCEPT !.sandbox_active = TRUE], 0, "none", out, "applied",
           g.text)

\* sys_pledge_xnu without the test of sandbox_active
sys_pledge_xnu_nofreeze(s, ipromises, mode, out) ==
  ReturnApply(apply_sandbox_xnu(
    [s EXCEPT !.promises = ipromises, !.pledge_called = TRUE], out))

sys_pledge_xnu(s, ipromises, mode, out) ==
  IF s.sandbox_active
  THEN Plain(s, -1, "EPERM")
  ELSE ReturnApply(apply_sandbox_xnu(
         [s EXCEPT !.promises = ipromises, !.pledge_called = TRUE], out))

\* ======================================= docs/pledge-unveil-macos-polyfill.md
XnuSandboxState0_doc ==
  [promises |-> AllDenied, pledge_called |-> FALSE, paths |-> <<>>,
   unveil_locked |-> FALSE, sandbox_active |-> FALSE, error_msg |-> "NULL"]

\* npaths
npaths(s) == Len(s.paths)

\* strchr(perms, c)
strchr(perms, c) == \E i \in 1..Len(perms) : perms[i] = c

\* the snprintf without the size check after it
Emit_unchecked(acc, f, check, outsize) ==
  [pos |-> acc.pos + FragLen(f), text |-> Append(acc.text, f),
   fail |-> FALSE]

\* pos += snprintf(out + pos, outsize - pos, f); with check, the
\* `if (pos >= outsize) return -1;` that follows it
Emit(acc, f, check, outsize) ==
  IF acc.fail THEN acc
  ELSE [pos |-> acc.pos + FragLen(f), text |-> Append(acc.text, f),
        fail |-> check /\ acc.pos + FragLen(f) >= outsize]

\* the loop over the promises with the bit test not inverted: it writes
\* the fragments of the promises whose bit is set
RECURSIVE PromiseLoop_setbits(_, _, _, _)
PromiseLoop_setbits(acc, i, s, outsize) ==
  IF i > Len(PromiseNames) \/ acc.fail THEN acc
  ELSE PromiseLoop_setbits(
         IF ~Allowed(s.promises, PromiseNames[i])
            /\ TemplateLen(PromiseNames[i]) > 0
         THEN Emit(acc, Frag(PromiseNames[i]), TRUE, outsize)
         ELSE acc,
         i + 1, s, outsize)

\* for (i = 0; i < PROMISE_LEN_; i++)
RECURSIVE PromiseLoop(_, _, _, _)
PromiseLoop(acc, i, s, outsize) ==
  IF i > Len(PromiseNames) \/ acc.fail THEN acc
  ELSE PromiseLoop(
         IF Allowed(s.promises, PromiseNames[i])
            /\ TemplateLen(PromiseNames[i]) > 0
         THEN Emit(acc, Frag(PromiseNames[i]), TRUE, outsize)
         ELSE acc,
         i + 1, s, outsize)

\* the four permission fragments with 'w' written as a read rule
PathFrags_wr(acc, u, outsize) ==
  LET a1 == IF strchr(u.perms, "r")
            THEN Emit(acc, PathFrag("read", u.path), TRUE, outsize) ELSE acc
      a2 == IF strchr(u.perms, "w")
            THEN Emit(a1, PathFrag("read", u.path), TRUE, outsize) ELSE a1
      a3 == IF strchr(u.perms, "x")
            THEN Emit(a2, PathFrag("execute", u.path), TRUE, outsize) ELSE a2
      a4 == IF strchr(u.perms, "c")
            THEN Emit(a3, PathFrag("create", u.path), TRUE, outsize) ELSE a3
  IN a4

\* the four permission fragments of one unveiled path
PathFrags(acc, u, outsize) ==
  LET a1 == IF strchr(u.perms, "r")
            THEN Emit(acc, PathFrag("read", u.path), TRUE, outsize) ELSE acc
      a2 == IF strchr(u.perms, "w")
            THEN Emit(a1, PathFrag("write", u.path), TRUE, outsize) ELSE a1
      a3 == IF strchr(u.perms, "x")
            THEN Emit(a2, PathFrag("execute", u.path), TRUE, outsize) ELSE a2
      a4 == IF strchr(u.perms, "c")
            THEN Emit(a3, PathFrag("create", u.path), TRUE, outsize) ELSE a3
  IN a4

\* the loop over paths[] where a later entry of a path replaces the earlier
RECURSIVE PathLoop_override(_, _, _, _)
PathLoop_override(acc, i, s, outsize) ==
  IF i > npaths(s) \/ acc.fail THEN acc
  ELSE LET a == IF \E j \in (i + 1)..npaths(s) :
                     s.paths[j].path = s.paths[i].path
                THEN acc
                ELSE PathFrags(acc, s.paths[i], outsize)
       IN PathLoop_override(a, i + 1, s, outsize)

\* for (i = 0; i < npaths; i++)
RECURSIVE PathLoop(_, _, _, _)
PathLoop(acc, i, s, outsize) ==
  IF i > npaths(s) \/ acc.fail THEN acc
  ELSE PathLoop(PathFrags(acc, s.paths[i], outsize), i + 1, s, outsize)

\* generate_sbpl_profile that writes "(allow default)" after the promises
\* as well
generate_sbpl_profile_allowall(s, outsize) ==
  LET a0 == Emit([pos |-> 0, text |-> <<>>, fail |-> FALSE],
                 Frag("header"), TRUE, outsize)
      a1 == IF s.pledge_called
            THEN Emit(PromiseLoop(
                        Emit(a0, Frag("pledge_comment"), FALSE, outsize),
                        1, s, outsize),
                      Frag("allow_default"), FALSE, outsize)
            ELSE Emit(a0, Frag("allow_default"), FALSE, outsize)
      a2 == IF npaths(s) > 0
            THEN PathLoop(Emit(a1, Frag("unveil_comment"), FALSE, outsize),
                          1, s, outsize)
            ELSE IF s.unveil_locked
            THEN Emit(a1, Frag("deny_files"), FALSE, outsize)
            ELSE a1
  IN IF a2.fail THEN [rc |-> -1, text |-> a2.text]
     ELSE [rc |-> a2.pos, text |-> a2.text]

\* generate_sbpl_profile without the branch of the lock with no paths
generate_sbpl_profile_nodeny(s, outsize) ==
  LET a0 == Emit([pos |-> 0, text |-> <<>>, fail |-> FALSE],
                 Frag("header"), TRUE, outsize)
      a1 == IF s.pledge_called
            THEN Emit(PromiseLoop(
                        Emit(a0, Frag("pledge_comment"), FALSE, outsize),
                        1, s, outsize),
                      Frag("newline"), FALSE, outsize)
            ELSE Emit(a0, Frag("allow_default"), FALSE, outsize)
      a2 == IF npaths(s) > 0
            THEN PathLoop(Emit(a1, Frag("unveil_comment"), FALSE, outsize),
                          1, s, outsize)
            ELSE a1
  IN IF a2.fail THEN [rc |-> -1, text |-> a2.text]
     ELSE [rc |-> a2.pos, text |-> a2.text]

generate_sbpl_profile(s, outsize) ==
  LET a0 == Emit([pos |-> 0, text |-> <<>>, fail |-> FALSE],
                 Frag("header"), TRUE, outsize)
      a1 == IF s.pledge_called
            THEN Emit(PromiseLoop(
                        Emit(a0, Frag("pledge_comment"), FALSE, outsize),
                        1, s, outsize),
                      Frag("newline"), FALSE, outsize)
            ELSE Emit(a0, Frag("allow_default"), FALSE, outsize)
      a2 == IF npaths(s) > 0
            THEN PathLoop(Emit(a1, Frag("unveil_comment"), FALSE, outsize),
                          1, s, outsize)
            ELSE IF s.unveil_locked
            THEN Emit(a1, Frag("deny_files"), FALSE, outsize)
            ELSE a1
  IN IF a2.fail THEN [rc |-> -1, text |-> a2.text]
     ELSE [rc |-> a2.pos, text |-> a2.text]

\* apply_sandbox_xnu of the listing without the test of sandbox_active
apply_sandbox_xnu_doc_again(s, out) ==
  LET g == generate_sbpl_profile(s, SBPL_MAX_SIZE_doc) IN
    IF g.rc < 0
    THEN A(s, -1, "ENOMEM", "none", "profile too large", <<>>)
    ELSE IF ~available
    THEN [A(s, -1, "none", "none", "none", <<>>) EXCEPT !.crashed = TRUE]
    ELSE IF out # "ok"
    THEN A(IF out = "fail_msg" THEN [s EXCEPT !.error_msg = PrimMessage]
           ELSE s,
           -1, "none", out,
           IF out = "fail_msg" THEN "sandbox_init failed" ELSE "none",
           g.text)
    ELSE A([s EXCEPT !.sandbox_active = TRUE], 0, "none", out, "none",
           g.text)

\* apply_sandbox_xnu of the listing that sets sandbox_active before the
\* result of the primitive is known
apply_sandbox_xnu_doc_early(s, out) ==
  IF s.sandbox_active
  THEN A(s, 0, "none", "none", "none", <<>>)
  ELSE LET g == generate_sbpl_profile(s, SBPL_MAX_SIZE_doc) IN
    IF g.rc < 0
    THEN A(s, -1, "ENOMEM", "none", "profile too large", <<>>)
    ELSE IF ~available
    THEN [A(s, -1, "none", "none", "none", <<>>) EXCEPT !.crashed = TRUE]
    ELSE IF out # "ok"
    THEN A(IF out = "fail_msg"
           THEN [s EXCEPT !.error_msg = PrimMessage,
                          !.sandbox_active = TRUE]
           ELSE [s EXCEPT !.sandbox_active = TRUE],
           -1, "none", out,
           IF out = "fail_msg" THEN "sandbox_init failed" ELSE "none",
           g.text)
    ELSE A([s EXCEPT !.sandbox_active = TRUE], 0, "none", out, "none",
           g.text)

\* The listing calls the weak import without testing it: with the symbol
\* unresolved the call goes through a null pointer and the process dies.
apply_sandbox_xnu_doc(s, out) ==
  IF s.sandbox_active
  THEN A(s, 0, "none", "none", "none", <<>>)
  ELSE LET g == generate_sbpl_profile(s, SBPL_MAX_SIZE_doc) IN
    IF g.rc < 0
    THEN A(s, -1, "ENOMEM", "none", "profile too large", <<>>)
    ELSE IF ~available
    THEN [A(s, -1, "none", "none", "none", <<>>) EXCEPT !.crashed = TRUE]
    ELSE IF out # "ok"
    THEN A(IF out = "fail_msg" THEN [s EXCEPT !.error_msg = PrimMessage]
           ELSE s,
           -1, "none", out,
           IF out = "fail_msg" THEN "sandbox_init failed" ELSE "none",
           g.text)
    ELSE A([s EXCEPT !.sandbox_active = TRUE], 0, "none", out, "none",
           g.text)

\* sys_pledge_xnu of the listing that always defers: the mask is stored and
\* the sandbox left to the next lock
sys_pledge_xnu_doc_defer(s, ipromises, mode, out) ==
  IF s.sandbox_active
  THEN Plain(s, -1, "EPERM")
  ELSE Plain([s EXCEPT !.promises = ipromises, !.pledge_called = TRUE],
             0, "none")

\* sys_pledge_xnu of the listing that starts the exposure over: the table
\* is emptied and the lock released
sys_pledge_xnu_doc_reset(s, ipromises, mode, out) ==
  IF s.sandbox_active
  THEN Plain(s, -1, "EPERM")
  ELSE Plain([s EXCEPT !.promises = ipromises, !.pledge_called = TRUE,
                       !.paths = <<>>, !.unveil_locked = FALSE],
             0, "none")

\* sys_pledge_xnu of the listing without the test of sandbox_active
sys_pledge_xnu_doc_nofreeze(s, ipromises, mode, out) ==
  LET s1 == [s EXCEPT !.promises = ipromises, !.pledge_called = TRUE]
  IN IF s1.unveil_locked
     THEN ReturnApply(apply_sandbox_xnu_doc(s1, out))
     ELSE Plain(s1, 0, "none")

sys_pledge_xnu_doc(s, ipromises, mode, out) ==
  IF s.sandbox_active
  THEN Plain(s, -1, "EPERM")
  ELSE LET s1 == [s EXCEPT !.promises = ipromises, !.pledge_called = TRUE]
       IN IF s1.unveil_locked
          THEN ReturnApply(apply_sandbox_xnu_doc(s1, out))
          ELSE Plain(s1, 0, "none")

\* strlcpy(dst, src, size) for size = n + 1
strlcpy(src, n) == IF Len(src) <= n THEN src ELSE SubSeq(src, 1, n)

\* the capacity check, the validation of the permissions and the store
\* cwd: what getcwd returns, NULL when it fails
\* unveil_store that puts the new rule in front of the table
unveil_store_front(s, path, permissions, cwd) ==
  IF npaths(s) >= MaxPaths
  THEN Plain(s, -1, "ENOMEM")
  ELSE IF \E i \in 1..Len(permissions.s) :
            permissions.s[i] \notin {"r", "w", "x", "c"}
  THEN Plain(s, -1, "EINVAL")
  ELSE IF path.s = <<>> \/ Head(path.s) # "/"
  THEN IF cwd.null
       THEN Plain([s EXCEPT !.paths =
                     <<[path |-> <<>>, perms |-> <<>>]>> \o @],
                  -1, "getcwd")
       ELSE Plain([s EXCEPT !.paths =
                     <<[path |-> cwd.s \o <<"/">> \o path.s,
                        perms |-> strlcpy(permissions.s, 4)]>> \o @],
                  0, "none")
  ELSE Plain([s EXCEPT !.paths =
                <<[path |-> path.s,
                   perms |-> strlcpy(permissions.s, 4)]>> \o @],
             0, "none")

\* unveil_store without the validation of the permission characters
unveil_store_anyperm(s, path, permissions, cwd) ==
  IF npaths(s) >= MaxPaths
  THEN Plain(s, -1, "ENOMEM")
  ELSE IF path.s = <<>> \/ Head(path.s) # "/"
  THEN IF cwd.null
       THEN Plain([s EXCEPT !.paths =
                     Append(@, [path |-> <<>>, perms |-> <<>>])],
                  -1, "getcwd")
       ELSE Plain([s EXCEPT !.paths =
                     Append(@, [path |-> cwd.s \o <<"/">> \o path.s,
                                perms |-> strlcpy(permissions.s, 4)])],
                  0, "none")
  ELSE Plain([s EXCEPT !.paths =
                Append(@, [path |-> path.s,
                           perms |-> strlcpy(permissions.s, 4)])],
             0, "none")

\* unveil_store without the test of npaths against the capacity
unveil_store_nocap(s, path, permissions, cwd) ==
  IF \E i \in 1..Len(permissions.s) :
       permissions.s[i] \notin {"r", "w", "x", "c"}
  THEN Plain(s, -1, "EINVAL")
  ELSE IF path.s = <<>> \/ Head(path.s) # "/"
  THEN IF cwd.null
       THEN Plain([s EXCEPT !.paths =
                     Append(@, [path |-> <<>>, perms |-> <<>>])],
                  -1, "getcwd")
       ELSE Plain([s EXCEPT !.paths =
                     Append(@, [path |-> cwd.s \o <<"/">> \o path.s,
                                perms |-> strlcpy(permissions.s, 4)])],
                  0, "none")
  ELSE Plain([s EXCEPT !.paths =
                Append(@, [path |-> path.s,
                           perms |-> strlcpy(permissions.s, 4)])],
             0, "none")

unveil_store(s, path, permissions, cwd) ==
  IF npaths(s) >= MaxPaths
  THEN Plain(s, -1, "ENOMEM")
  ELSE IF \E i \in 1..Len(permissions.s) :
            permissions.s[i] \notin {"r", "w", "x", "c"}
  THEN Plain(s, -1, "EINVAL")
  ELSE IF path.s = <<>> \/ Head(path.s) # "/"
  THEN IF cwd.null
       THEN \* npaths++ is done, the slot keeps its zero bytes
            Plain([s EXCEPT !.paths =
                     Append(@, [path |-> <<>>, perms |-> <<>>])],
                  -1, "getcwd")
       ELSE Plain([s EXCEPT !.paths =
                     Append(@, [path |-> cwd.s \o <<"/">> \o path.s,
                                perms |-> strlcpy(permissions.s, 4)])],
                  0, "none")
  ELSE Plain([s EXCEPT !.paths =
                Append(@, [path |-> path.s,
                           perms |-> strlcpy(permissions.s, 4)])],
             0, "none")

\* sys_unveil_xnu that takes a single NULL argument for the lock as well
sys_unveil_xnu_anynil(s, path, permissions, out, cwd) ==
  IF path.null \/ permissions.null
  THEN ReturnApply(apply_sandbox_xnu_doc(
         [s EXCEPT !.unveil_locked = TRUE], out))
  ELSE IF s.unveil_locked
  THEN Plain(s, -1, "EPERM")
  ELSE unveil_store(s, path, permissions, cwd)

\* sys_unveil_xnu that refuses a second lock
sys_unveil_xnu_lockonce(s, path, permissions, out, cwd) ==
  IF path.null /\ permissions.null
  THEN IF s.unveil_locked
       THEN Plain(s, -1, "EPERM")
       ELSE ReturnApply(apply_sandbox_xnu_doc(
              [s EXCEPT !.unveil_locked = TRUE], out))
  ELSE IF path.null \/ permissions.null
  THEN Plain(s, -1, "EINVAL")
  ELSE IF s.unveil_locked
  THEN Plain(s, -1, "EPERM")
  ELSE unveil_store(s, path, permissions, cwd)

\* sys_unveil_xnu without the test of unveil_locked
sys_unveil_xnu_nolock(s, path, permissions, out, cwd) ==
  IF path.null /\ permissions.null
  THEN ReturnApply(apply_sandbox_xnu_doc(
         [s EXCEPT !.unveil_locked = TRUE], out))
  ELSE IF path.null \/ permissions.null
  THEN Plain(s, -1, "EINVAL")
  ELSE unveil_store(s, path, permissions, cwd)

\* sys_unveil_xnu whose lock runs apply_sandbox_xnu and returns 0
sys_unveil_xnu_lock0(s, path, permissions, out, cwd) ==
  IF path.null /\ permissions.null
  THEN [ReturnApply(apply_sandbox_xnu_doc(
          [s EXCEPT !.unveil_locked = TRUE], out))
          EXCEPT !.rc = 0, !.err = "none"]
  ELSE IF path.null \/ permissions.null
  THEN Plain(s, -1, "EINVAL")
  ELSE IF s.unveil_locked
  THEN Plain(s, -1, "EPERM")
  ELSE unveil_store(s, path, permissions, cwd)

sys_unveil_xnu(s, path, permissions, out, cwd) ==
  IF path.null /\ permissions.null
  THEN ReturnApply(apply_sandbox_xnu_doc(
         [s EXCEPT !.unveil_locked = TRUE], out))
  ELSE IF path.null \/ permissions.null
  THEN Plain(s, -1, "EINVAL")
  ELSE IF s.unveil_locked
  THEN Plain(s, -1, "EPERM")
  ELSE unveil_store(s, path, permissions, cwd)

\* what the callers pass to unveil()
PathInputs == {NULL, Str(<<"/", "etc">>), Str(<<"tmp">>), Str(<<>>)}
PermInputs ==
  {NULL, Str(<<"r">>), Str(<<"w">>), Str(<<"r", "w", "x", "c">>),
   Str(<<"r", "z">>), Str(<<>>), Str(<<"r", "r", "r", "r", "w">>)}
CwdOutcomes == {Str(<<"/", "home">>), NULL}

\* a path of 1001 characters, below PATH_MAX
LongPath == <<"/", "LONG">>

\* the pairs passed to unveil(); the long path comes with every permission
UnveilInputs ==
  (PathInputs \X PermInputs)
    \cup {<<Str(LongPath), Str(<<"r", "w", "x", "c">>)>>}

\* the outcome of the primitive and of getcwd is drawn only for the calls
\* that can reach them
PrimDraw(reaches) == IF reaches THEN PrimOutcomes ELSE {"ok"}
CwdDraw(reaches) == IF reaches THEN CwdOutcomes ELSE {NULL}

\* ================================================================ machine
NoApply == [set |-> FALSE, rc |-> 0, err |-> "none"]

\* the generator has not been run on its own
NoGen ==
  [done |-> FALSE, rc |-> 0, text |-> <<>>, invoked |-> FALSE,
   handed |-> <<>>]

Init ==
  /\ program \in {"xnu", "design"}
  /\ available \in BOOLEAN
  /\ XnuSandboxState =
       [t \in Threads |-> IF program = "xnu" THEN XnuSandboxState0
                          ELSE XnuSandboxState0_doc]
  /\ ret = NoCall
  /\ pre = XnuSandboxState[1]
  /\ hist = [t \in Threads |-> [activations |-> 0, first |-> NoApply]]
  /\ ncalls = 0
  /\ gen = NoGen

\* the process has not crashed and the model's budget of calls is not spent
CanCall == ~ret.crashed /\ ncalls < MaxCalls

\* the call's result written to one struct shared by every thread
Commit_shared(t, op, arg, r) ==
  /\ XnuSandboxState' = [u \in Threads |-> r.state]
  /\ pre' = XnuSandboxState[t]
  /\ ret' = [op |-> op, t |-> t, arg |-> arg, rc |-> r.rc, err |-> r.err,
             prim |-> r.prim, invoked |-> r.invoked,
             activated |-> r.activated,
             applies |-> r.applies, apply_rc |-> r.apply_rc,
             apply_err |-> r.apply_err, signal |-> r.signal,
             handed |-> r.handed, crashed |-> r.crashed]
  /\ hist' = [hist EXCEPT
       ![t].activations = @ + (IF r.activated THEN 1 ELSE 0),
       ![t].first = IF r.applies > 0 /\ ~@.set
                    THEN [set |-> TRUE, rc |-> r.apply_rc,
                          err |-> r.apply_err]
                    ELSE @]
  /\ ncalls' = ncalls + 1
  /\ UNCHANGED <<program, available, gen>>

\* thread t's call op(arg) returned r
Commit(t, op, arg, r) ==
  /\ XnuSandboxState' = [XnuSandboxState EXCEPT ![t] = r.state]
  /\ pre' = XnuSandboxState[t]
  /\ ret' = [op |-> op, t |-> t, arg |-> arg, rc |-> r.rc, err |-> r.err,
             prim |-> r.prim, invoked |-> r.invoked,
             activated |-> r.activated,
             applies |-> r.applies, apply_rc |-> r.apply_rc,
             apply_err |-> r.apply_err, signal |-> r.signal,
             handed |-> r.handed, crashed |-> r.crashed]
  /\ hist' = [hist EXCEPT
       ![t].activations = @ + (IF r.activated THEN 1 ELSE 0),
       ![t].first = IF r.applies > 0 /\ ~@.set
                    THEN [set |-> TRUE, rc |-> r.apply_rc,
                          err |-> r.apply_err]
                    ELSE @]
  /\ ncalls' = ncalls + 1
  /\ UNCHANGED <<program, available, gen>>

\* pledge() on a thread of the compiled program
PledgeXnu ==
  /\ program = "xnu"
  /\ CanCall
  /\ \E t \in Threads, ipromises \in MaskInputs, out \in PrimOutcomes :
       Commit(t, "pledge", ipromises,
              sys_pledge_xnu(XnuSandboxState[t], ipromises, 0, out))

\* pledge() on a thread of the designed program
PledgeDesign ==
  /\ program = "design"
  /\ CanCall
  /\ \E t \in Contexts, ipromises \in MaskInputs :
     \E out \in PrimDraw(XnuSandboxState[t].unveil_locked) :
       Commit(t, "pledge", ipromises,
              sys_pledge_xnu_doc(XnuSandboxState[t], ipromises, 0, out))

\* unveil() on a thread of the designed program
UnveilDesign ==
  /\ program = "design"
  /\ CanCall
  /\ \E t \in Contexts, arg \in UnveilInputs :
     LET path == arg[1]
         permissions == arg[2]
     IN \E out \in PrimDraw(path.null /\ permissions.null),
           cwd \in CwdDraw(~path.null /\ ~permissions.null) :
          Commit(t, "unveil", <<path, permissions>>,
                 sys_unveil_xnu(XnuSandboxState[t], path, permissions, out,
                                cwd))

Next == PledgeXnu \/ PledgeDesign \/ UnveilDesign

Spec == Init /\ [][Next]_vars

\* ------------------------------------------- the generators on their own
\* masks of the states the generators are run on
GenPromises == {"stdio", "rpath", "unveil", "chown"}
GenMasks == {AllDenied \ S : S \in SUBSET GenPromises} \cup {{}}

\* what unveil_store leaves in a slot of paths[]
GenPerms ==
  {<<"r">>, <<"w">>, <<"x">>, <<"c">>, <<"r", "w", "x", "c">>, <<>>}
GenRules ==
  [path : {<<"/", "etc">>, LongPath}, perms : GenPerms]
    \cup {[path |-> <<>>, perms |-> <<>>]}
GenTables ==
  UNION {[1..n -> GenRules] : n \in 0..MaxPaths}

\* the C file reaches generate_sbpl_stdio after a pledge() that permits
\* stdio, the sandbox not active
GenStates ==
  {[promises |-> m, pledge_called |-> TRUE, sandbox_active |-> FALSE] :
     m \in {x \in GenMasks : Allowed(x, "stdio")}}

\* the listing reaches generate_sbpl_profile after the lock, the sandbox
\* not active
GenStates_doc ==
  {[promises |-> d[1], pledge_called |-> d[2], paths |-> p,
    unveil_locked |-> TRUE, sandbox_active |-> FALSE,
    error_msg |-> "NULL"] :
     d \in {<<AllDenied, FALSE>>} \cup {<<m, TRUE>> : m \in GenMasks},
     p \in GenTables}

InitGen ==
  /\ program \in {"xnu", "design"}
  /\ available = TRUE
  /\ \E s \in (IF program = "xnu" THEN GenStates ELSE GenStates_doc) :
       XnuSandboxState = [t \in Threads |-> s]
  /\ ret = NoCall
  /\ pre = XnuSandboxState[1]
  /\ hist = [t \in Threads |-> [activations |-> 0, first |-> NoApply]]
  /\ ncalls = 0
  /\ gen = NoGen

\* the state the generator reads
GenState == XnuSandboxState[1]

\* g: what the generator returned; a: what apply_sandbox_xnu did with it
Generated(g, a) ==
  /\ gen' = [done |-> TRUE, rc |-> g.rc, text |-> g.text,
             invoked |-> a.invoked, handed |-> a.handed]
  /\ UNCHANGED <<program, available, XnuSandboxState, ret, pre, hist,
                 ncalls>>

\* apply_sandbox_xnu of the C file runs generate_sbpl_stdio
GenerateStdio ==
  /\ program = "xnu"
  /\ ~gen.done
  /\ \E out \in PrimOutcomes :
       Generated(generate_sbpl_stdio(SBPL_MAX_SIZE),
                 apply_sandbox_xnu(GenState, out))

\* apply_sandbox_xnu of the listing runs generate_sbpl_profile
GenerateProfile ==
  /\ program = "design"
  /\ ~gen.done
  /\ \E out \in PrimOutcomes :
       Generated(generate_sbpl_profile(GenState, SBPL_MAX_SIZE_doc),
                 apply_sandbox_xnu_doc(GenState, out))

NextGen == GenerateStdio \/ GenerateProfile

SpecGen == InitGen /\ [][NextGen]_vars

\* ================================================================= claims
\* the calling thread's struct after the last call
Post == XnuSandboxState[ret.t]

\* the last call was the lock sentinel unveil(NULL, NULL)
IsLock == ret.op = "unveil" /\ ret.arg[1].null /\ ret.arg[2].null

\* exposureLocked and lastError of a struct; the C file's struct has neither
Locked(s) == IF "unveil_locked" \in DOMAIN s THEN s.unveil_locked ELSE FALSE
LastError(s) == IF "error_msg" \in DOMAIN s THEN s.error_msg ELSE "NULL"

RECURSIVE Activations(_)
Activations(T) ==
  IF T = {} THEN 0
  ELSE LET t == CHOOSE x \in T : TRUE
       IN hist[t].activations + Activations(T \ {t})

\* C1: a pledge() made once the sandbox is active fails with EPERM for
\* every mask, does not call the primitive and leaves the struct as it was.
C1_PledgeAfterApplied ==
  (ret.op = "pledge" /\ pre.sandbox_active) =>
    /\ ret.rc = -1
    /\ ret.err = "EPERM"
    /\ ~ret.invoked
    /\ Post = pre

C1_Witness ==
  /\ program = "xnu"
  /\ ret.op = "pledge"
  /\ pre.sandbox_active
  /\ ret.arg # pre.promises

\* C2 as stated: every unveil() made after the lock, whatever its
\* arguments, fails with EPERM and leaves the struct as it was.
C2_AnyUnveilAfterLockEPERM ==
  (ret.op = "unveil" /\ pre.unveil_locked) =>
    /\ ret.rc = -1
    /\ ret.err = "EPERM"
    /\ Post = pre

\* C2 amended: after the lock, unveil() with a path and a permission string
\* fails with EPERM whatever their values, unveil() with one of the two
\* NULL fails with EINVAL, and both leave the struct as it was without
\* calling the primitive.
C2_UnveilAfterLock ==
  (ret.op = "unveil" /\ pre.unveil_locked /\ ~IsLock) =>
    /\ ret.rc = -1
    /\ ret.err = IF ret.arg[1].null \/ ret.arg[2].null
                 THEN "EINVAL" ELSE "EPERM"
    /\ ~ret.invoked
    /\ Post = pre

C2_Witness ==
  /\ ret.op = "unveil"
  /\ pre.unveil_locked
  /\ ret.arg[1] = Str(<<"/", "etc">>)
  /\ ret.arg[2] = Str(<<"r", "z">>)
  /\ ret.err = "EPERM"

\* C3: once sandbox_active is set in a thread's struct, no call of
\* pledge(), unveil() or the lock changes any field of that struct.
C3_AppliedIsFrozen ==
  [][\A t \in Threads :
       XnuSandboxState[t].sandbox_active =>
         XnuSandboxState'[t] = XnuSandboxState[t]]_vars

C3_Witness ==
  /\ IsLock
  /\ pre.sandbox_active
  /\ ret.rc = 0

\* C4 as stated: the primitive activates at most once in a context and
\* every apply_sandbox_xnu after the first returns what the first returned.
C4_EveryApplyReturnsTheFirstResult ==
  /\ \A t \in Threads : hist[t].activations <= 1
  /\ ret.applies > 0 =>
       /\ ret.apply_rc = hist[ret.t].first.rc
       /\ ret.apply_err = hist[ret.t].first.err

\* C4 amended: the primitive activates at most once in a context, and
\* every apply_sandbox_xnu run after the sandbox became active returns 0
\* without calling the primitive and without changing the struct.
C4_ApplyIdempotentOnceActive ==
  /\ \A t \in Threads : hist[t].activations <= 1
  /\ (ret.applies > 0 /\ pre.sandbox_active) =>
       /\ ret.rc = 0
       /\ ~ret.invoked
       /\ Post = pre

C4_Witness ==
  /\ ret.applies > 0
  /\ pre.sandbox_active
  /\ hist[ret.t].activations = 1
  /\ hist[ret.t].first.rc = -1

\* C5: over all threads of the process the primitive activates the sandbox
\* at most once.
C5_OneActivationPerProcess == Activations(Threads) <= 1

\* C6: when the primitive is present and fails, the call returns -1,
\* sandbox_active stays false, the state stays locked and the message of
\* the primitive is recorded as the last error.
C6_PrimitiveFailureRecorded ==
  (available /\ ret.invoked /\ ret.prim # "ok") =>
    /\ ret.rc = -1
    /\ ~Post.sandbox_active
    /\ Locked(Post)
    /\ ret.prim = "fail_msg" => LastError(Post) = PrimMessage

\* C7: with the primitive present, a call that ran apply_sandbox_xnu and
\* returned 0 leaves sandbox_active set.
C7_FailLoud ==
  (available /\ ret.applies > 0 /\ ret.rc = 0) => Post.sandbox_active

C7_Witness ==
  /\ program = "xnu"
  /\ available
  /\ ret.applies > 0
  /\ ret.rc = 0
  /\ ret.prim = "ok"
  /\ ~pre.sandbox_active

\* C8: with the primitive absent, pledge() and the lock return 0 for every
\* mask, the primitive is not called, sandbox_active is not set, and a
\* call that reaches apply_sandbox_xnu logs "not available", never
\* "applied".
C8_AbsentPrimitiveDegrades ==
  (~available /\ (ret.op = "pledge" \/ IsLock)) =>
    /\ ~ret.crashed
    /\ ret.rc = 0
    /\ ~ret.invoked
    /\ ~Post.sandbox_active
    /\ ret.signal # "applied"
    /\ ret.applies > 0 => ret.signal = "not available"

\* C9: a pledge() before the sandbox is active runs apply_sandbox_xnu if
\* and only if unveil is locked; when it is not locked the call stores the
\* mask, sets pledge_called, returns 0, does not call the primitive and
\* does not set sandbox_active.
C9_DeferredApplication ==
  (ret.op = "pledge" /\ ~pre.sandbox_active) =>
    /\ ret.applies > 0 <=> Locked(pre)
    /\ ~Locked(pre) =>
         /\ ret.rc = 0
         /\ ~ret.invoked
         /\ ~Post.sandbox_active
         /\ Post.promises = ret.arg
         /\ Post.pledge_called

\* C10: the lock unveil(NULL, NULL) sets unveil_locked, runs
\* apply_sandbox_xnu once and returns what it returned: 0 when the sandbox
\* is or becomes active, -1 when the primitive fails.
C10_LockAppliesOnce ==
  (IsLock /\ ~ret.crashed) =>
    /\ Post.unveil_locked
    /\ ret.applies = 1
    /\ ret.rc = ret.apply_rc
    /\ ret.err = ret.apply_err
    /\ ret.rc = 0 <=> Post.sandbox_active
    /\ ret.prim \in {"fail_msg", "fail_nomsg"} => ret.rc = -1

C10_Witness ==
  /\ IsLock
  /\ ~pre.unveil_locked
  /\ Post.unveil_locked
  /\ ret.prim = "fail_msg"
  /\ ret.rc = -1

\* the profile text holds the fragment f
Has(text, f) == \E i \in 1..Len(text) : text[i] = f

\* C11: a profile generated with the exposure locked and no rule stored
\* holds the deny-all-filesystem fragment; after pledge of stdio alone and
\* the lock with no rule, the profile applied holds the stdio fragment and
\* the deny fragment, and the state is applied and frozen.
C11_LockedWithNoRuleDeniesFiles ==
  (program = "design" /\ ret.invoked /\ npaths(Post) = 0) =>
    /\ Post.unveil_locked
    /\ Has(ret.handed, Frag("deny_files"))
    /\ (/\ ret.prim = "ok"
        /\ Post.pledge_called
        /\ Post.promises = AllDenied \ {"stdio"}) =>
         /\ Has(ret.handed, Frag("stdio"))
         /\ Post.sandbox_active

C11_Witness ==
  /\ program = "design"
  /\ IsLock
  /\ ret.prim = "ok"
  /\ npaths(Post) = 0
  /\ Post.pledge_called
  /\ Post.promises = AllDenied \ {"stdio"}
  /\ ret.handed =
       <<Frag("header"), Frag("pledge_comment"), Frag("stdio"),
         Frag("newline"), Frag("deny_files")>>

\* the last call was unveil(path, permissions) with both given and every
\* permission character one of r, w, x, c
IsValidUnveil ==
  /\ ret.op = "unveil"
  /\ ~ret.arg[1].null
  /\ ~ret.arg[2].null
  /\ \A i \in 1..Len(ret.arg[2].s) : ret.arg[2].s[i] \in {"r", "w", "x", "c"}

\* C12: with the table at its capacity an otherwise valid unveil() fails
\* with ENOMEM and leaves the table as it was; the number of rules never
\* exceeds the capacity.
C12_CapacityError ==
  program = "design" =>
    /\ \A t \in Contexts : npaths(XnuSandboxState[t]) <= MaxPaths
    /\ (/\ IsValidUnveil
        /\ ~pre.unveil_locked
        /\ npaths(pre) = MaxPaths) =>
         /\ ret.rc = -1
         /\ ret.err = "ENOMEM"
         /\ Post.paths = pre.paths
         /\ Post = pre

C12_Witness ==
  /\ program = "design"
  /\ IsValidUnveil
  /\ ~pre.unveil_locked
  /\ npaths(pre) = MaxPaths
  /\ \A i \in 1..MaxPaths : pre.paths[i].perms # <<>>
  /\ ret.err = "ENOMEM"
  /\ npaths(Post) = MaxPaths

\* C13: a pledge() or a lock whose profile generation fails with ENOMEM
\* leaves every field of the struct as it was before the call.
C13_GenerationAllOrNothing ==
  (ret.applies > 0 /\ ret.err = "ENOMEM") => Post = pre

\* the buffer a generator is given
MaxSize == IF program = "xnu" THEN SBPL_MAX_SIZE ELSE SBPL_MAX_SIZE_doc

\* a buffer that no document of the model fills
Roomy == SBPL_MAX_SIZE_doc * (MaxPaths + 2)

\* what the generator writes for the state when the buffer is roomy
FullDocument ==
  IF program = "xnu" THEN generate_sbpl_stdio(Roomy)
  ELSE generate_sbpl_profile(GenState, Roomy)

\* C14: the generator returns -1 exactly when the document does not fit
\* the buffer; when it succeeds the text is the whole document and shorter
\* than the buffer; the primitive is handed nothing else than such a text.
C14_NoTruncatedProfile ==
  gen.done =>
    /\ FullDocument.rc >= 0
    /\ FullDocument.rc < Roomy
    /\ (gen.rc = -1) <=> (FullDocument.rc >= MaxSize)
    /\ gen.rc >= 0 =>
         /\ gen.text = FullDocument.text
         /\ gen.rc = TextLen(gen.text)
         /\ gen.rc < MaxSize
    /\ gen.rc < 0 => ~gen.invoked
    /\ gen.invoked =>
         /\ gen.handed = FullDocument.text
         /\ TextLen(gen.handed) < MaxSize

C14_Witness ==
  /\ program = "design"
  /\ gen.done
  /\ gen.rc = -1
  /\ FullDocument.rc >= SBPL_MAX_SIZE_doc
  /\ ~gen.invoked

\* the permission characters and the fragment written for each
PermChars == {"r", "w", "x", "c"}
KindOf(c) ==
  CASE c = "r" -> "read" [] c = "w" -> "write" [] c = "x" -> "execute"
    [] OTHER -> "create"

\* the permissions the profile text grants on the path p
Granted(text, p) == {c \in PermChars : Has(text, PathFrag(KindOf(c), p))}

\* the union of the permissions of the stored rules that name p
Declared(s, p) ==
  {c \in PermChars :
     \E i \in 1..npaths(s) :
       s.paths[i].path = p /\ strchr(s.paths[i].perms, c)}

\* C16: in a generated profile the permissions granted on a path are the
\* union of the permissions of every stored rule that names the path;
\* "/etc" stored with "r" and then with "w" is granted both.
C16_UnionOfExposures ==
  (program = "design" /\ gen.done /\ gen.rc >= 0) =>
    \A p \in {u.path : u \in GenRules} :
      Granted(gen.text, p) = Declared(GenState, p)

C16_Witness ==
  /\ program = "design"
  /\ gen.done
  /\ gen.rc >= 0
  /\ GenState.paths =
       <<[path |-> <<"/", "etc">>, perms |-> <<"r">>],
         [path |-> <<"/", "etc">>, perms |-> <<"w">>]>>
  /\ Granted(gen.text, <<"/", "etc">>) = {"r", "w"}

\* the fragments that carry a path
IsPathFrag(f) == f.k \in {KindOf(c) : c \in PermChars}

\* what one stored rule asks for: read, write, execute, create, in order
RuleText(u) ==
  (IF strchr(u.perms, "r") THEN <<PathFrag("read", u.path)>> ELSE <<>>)
    \o (IF strchr(u.perms, "w") THEN <<PathFrag("write", u.path)>> ELSE <<>>)
    \o (IF strchr(u.perms, "x") THEN <<PathFrag("execute", u.path)>>
        ELSE <<>>)
    \o (IF strchr(u.perms, "c") THEN <<PathFrag("create", u.path)>>
        ELSE <<>>)

RECURSIVE RulesText(_)
RulesText(paths) ==
  IF paths = <<>> THEN <<>>
  ELSE RuleText(Head(paths)) \o RulesText(Tail(paths))

\* C17: for every stored rule the profile holds the read fragment iff the
\* rule has r, the write fragment iff w, the fragment with the execute
\* mapping and the exec invocation iff x, the fragment with create,
\* unlink, link and rename iff c, and nothing else for the rule.
C17_FragmentsPerRule ==
  (program = "design" /\ gen.done /\ gen.rc >= 0) =>
    /\ SelectSeq(gen.text, IsPathFrag) = RulesText(GenState.paths)
    /\ Holes("read") = 1
    /\ Holes("write") = 1
    /\ Holes("execute") = 2
    /\ Holes("create") = 4

C17_Witness ==
  /\ program = "design"
  /\ gen.done
  /\ gen.rc >= 0
  /\ npaths(GenState) = 2
  /\ GenState.paths[1].perms = <<"r", "w", "x", "c">>
  /\ GenState.paths[2].perms = <<"x">>
  /\ Len(SelectSeq(gen.text, IsPathFrag)) = 5

\* the fragments of kPledgeToSBPL
IsPromiseFrag(f) == f.k \in AllPromises

\* the fragments of the permitted promises, in enumeration order; the
\* entry of PROMISE_UNVEIL is the empty string
RECURSIVE PermittedFrags(_, _)
PermittedFrags(promises, i) ==
  IF i > Len(PromiseNames) THEN <<>>
  ELSE (IF Allowed(promises, PromiseNames[i])
           /\ TemplateLen(PromiseNames[i]) > 0
        THEN <<Frag(PromiseNames[i])>> ELSE <<>>)
       \o PermittedFrags(promises, i + 1)

\* C18: after pledge() the profile handed to the primitive holds the
\* kPledgeToSBPL fragment of every permitted promise, in enumeration
\* order.
C18_PermittedFragmentsInOrder ==
  (ret.invoked /\ Post.pledge_called) =>
    SelectSeq(ret.handed, IsPromiseFrag) = PermittedFrags(Post.promises, 1)

\* C19: a generated profile holds "(allow default)" iff pledge() was never
\* called when it was generated.
C19_AllowDefaultIffNoPledge ==
  (gen.done /\ gen.rc >= 0) =>
    (Has(gen.text, Frag("allow_default")) <=> ~GenState.pledge_called)

C19_Witness ==
  /\ program = "design"
  /\ gen.done
  /\ gen.rc >= 0
  /\ ~GenState.pledge_called
  /\ npaths(GenState) > 0
  /\ Has(gen.text, Frag("allow_default"))

\* the header of each generator: "(version 1)", "(deny default)" and the
\* process-exec rule on PROCESS_PATH
Header == IF program = "xnu" THEN Frag("header_stdio") ELSE Frag("header")

\* C20: every generated profile begins with the header, which comes once
\* and before every promise and path fragment.
C20_HeaderFirst ==
  (gen.done /\ gen.rc >= 0) =>
    /\ gen.text # <<>>
    /\ Head(gen.text) = Header
    /\ \A i \in 2..Len(gen.text) :
         gen.text[i].k \notin {"header", "header_stdio"}

C20_Witness ==
  /\ gen.done
  /\ gen.rc >= 0
  /\ program = "xnu"
  /\ Head(gen.text) = Frag("header_stdio")
  /\ Len(gen.text) > 1

\* the last call was unveil(path, permissions) with both given and a
\* permission character other than r, w, x, c
IsBadPermUnveil ==
  /\ ret.op = "unveil"
  /\ ~ret.arg[1].null
  /\ ~ret.arg[2].null
  /\ \E i \in 1..Len(ret.arg[2].s) :
       ret.arg[2].s[i] \notin {"r", "w", "x", "c"}

\* C21 as stated: unveil() with a permission character outside r, w, x, c
\* fails with EINVAL and leaves the struct as it was.
C21_BadPermsAlwaysEINVAL ==
  (program = "design" /\ IsBadPermUnveil) =>
    /\ ret.rc = -1
    /\ ret.err = "EINVAL"
    /\ Post = pre

\* C21: unveil() with a permission character outside r, w, x, c fails and
\* leaves the struct as it was; the error is EPERM after the lock, ENOMEM
\* with the table full, EINVAL otherwise.
C21_BadPermsRejected ==
  (program = "design" /\ IsBadPermUnveil) =>
    /\ ret.rc = -1
    /\ ret.err = IF pre.unveil_locked THEN "EPERM"
                 ELSE IF npaths(pre) >= MaxPaths THEN "ENOMEM"
                 ELSE "EINVAL"
    /\ ~ret.invoked
    /\ Post = pre

C21_Witness ==
  /\ program = "design"
  /\ IsBadPermUnveil
  /\ ~pre.unveil_locked
  /\ npaths(pre) = 1
  /\ ret.err = "EINVAL"
  /\ Post.paths = pre.paths

\* the last call was unveil() with exactly one of its arguments NULL
IsMismatchedUnveil ==
  /\ ret.op = "unveil"
  /\ ret.arg[1].null # ret.arg[2].null

\* C22: unveil() with exactly one of path and permissions NULL fails with
\* EINVAL, does not lock, does not run apply_sandbox_xnu and leaves the
\* struct as it was.
C22_MismatchedNilEINVAL ==
  (program = "design" /\ IsMismatchedUnveil) =>
    /\ ret.rc = -1
    /\ ret.err = "EINVAL"
    /\ ret.applies = 0
    /\ ~ret.invoked
    /\ Post.unveil_locked = pre.unveil_locked
    /\ Post = pre

C22_Witness ==
  /\ program = "design"
  /\ IsMismatchedUnveil
  /\ ret.arg[1].null
  /\ ~pre.unveil_locked
  /\ npaths(pre) > 0
  /\ ret.err = "EINVAL"
  /\ ~Post.unveil_locked

\* C23: unveil() with the empty string as path returns an error and adds
\* no rule to the table.
C23_EmptyPathRejected ==
  (/\ program = "design"
   /\ ret.op = "unveil"
   /\ ~ret.arg[1].null
   /\ ~ret.arg[2].null
   /\ ret.arg[1].s = <<>>) =>
    /\ ret.rc = -1
    /\ Post.paths = pre.paths

\* C24: a pledge(), an unveil() or a lock made on one thread leaves the
\* struct of every other thread as it was, whatever the order of the calls.
C24_ThreadIsolation ==
  [][\A t \in Threads :
       t # ret'.t => XnuSandboxState'[t] = XnuSandboxState[t]]_vars

\* two threads have each made their own pledge() and hold different masks
C24_Witness ==
  /\ program = "xnu"
  /\ ret.op = "pledge"
  /\ ret.t = 2
  /\ XnuSandboxState[1].pledge_called
  /\ XnuSandboxState[2].pledge_called
  /\ XnuSandboxState[1].promises # XnuSandboxState[2].promises
  /\ XnuSandboxState[1].sandbox_active
  /\ ~XnuSandboxState[2].sandbox_active

\* the fragments that allow file access without naming a path:
\* "(allow default)", "(allow file-read*)", "(allow file-write*)", ...
UnscopedFileKinds ==
  {"allow_default", "rpath", "wpath", "cpath", "dpath", "fattr", "chown"}

\* C25: in the C file, when pledge() of stdio alone returns 0 with the
\* primitive resolved, the sandbox is active and the profile applied is
\* the header with (deny default) followed by the file-read*/file-write*
\* rule on the device literals, with no file rule that is not scoped.
C25_StdioPledgeConfines ==
  (/\ program = "xnu"
   /\ available
   /\ ret.op = "pledge"
   /\ ret.rc = 0
   /\ ret.arg = AllDenied \ {"stdio"}) =>
    /\ Post.sandbox_active
    /\ ret.prim = "ok"
    /\ ret.handed =
         <<Frag("header_stdio"), Frag("stdio_min"), Frag("syscalls_min"),
           Frag("memory_min")>>
    /\ \A i \in 1..Len(ret.handed) : ret.handed[i].k \notin UnscopedFileKinds

C25_Witness ==
  /\ program = "xnu"
  /\ available
  /\ ret.op = "pledge"
  /\ ret.rc = 0
  /\ ret.arg = AllDenied \ {"stdio"}
  /\ ~pre.pledge_called
  /\ Post.sandbox_active
  /\ Head(ret.handed) = Frag("header_stdio")

C27_RepeatedLockNoOp ==
  (program = "design" /\ IsLock /\ pre.sandbox_active) =>
    /\ ret.rc = 0
    /\ ret.err = "none"
    /\ ~ret.invoked
    /\ Post = pre

C27_Witness ==
  /\ program = "design"
  /\ IsLock
  /\ pre.sandbox_active
  /\ pre.unveil_locked
  /\ npaths(pre) > 0
  /\ ret.rc = 0
  /\ hist[1].activations = 1

\* C28: a pledge() made with the exposure not locked and the sandbox not
\* active returns 0 and leaves the mask of this call in the struct.
C28_RedeclarationOverwrites ==
  (ret.op = "pledge" /\ ~pre.sandbox_active /\ ~Locked(pre)) =>
    /\ ret.rc = 0
    /\ Post.pledge_called
    /\ Post.promises = ret.arg

\* C29: the profile handed to the primitive holds the fragment of a
\* promise only if the stored mask permits the promise (its bit is clear).
C29_NoFragmentOfDeniedPromise ==
  ret.invoked =>
    /\ \A i \in 1..Len(ret.handed) :
         IsPromiseFrag(ret.handed[i]) =>
           Allowed(Post.promises, ret.handed[i].k)
    /\ Has(ret.handed, Frag("stdio_min")) => Allowed(Post.promises, "stdio")

C29_Witness ==
  /\ program = "design"
  /\ ret.invoked
  /\ Post.pledge_called
  /\ Post.promises = AllDenied \ {"stdio", "rpath"}
  /\ Has(ret.handed, Frag("rpath"))
  /\ ~Has(ret.handed, Frag("wpath"))

\* C30: a profile generated with the exposure locked and at least one rule
\* stored holds no file rule that is not scoped to a path and no
\* "(allow default)".
C30_ExposureConfines ==
  (program = "design" /\ ret.invoked /\ npaths(Post) > 0) =>
    \A i \in 1..Len(ret.handed) : ret.handed[i].k \notin UnscopedFileKinds

\* C31: a profile generated with the exposure locked and no stored rule
\* that grants a permission (no rule, or only rules with the empty
\* permission string) holds the deny-all-filesystem fragment.
C31_NothingExposedDeniesFiles ==
  (/\ program = "design"
   /\ ret.invoked
   /\ \A i \in 1..npaths(Post) : Post.paths[i].perms = <<>>) =>
    Has(ret.handed, Frag("deny_files"))

\* C32: sandbox_active is true in a thread's struct only if the primitive
\* was called in that thread and returned 0; a call that ends on the
\* unresolved symbol, on ENOMEM, on ENOSYS or on a failure of the
\* primitive does not set it.
C32_ActiveOnlyAfterPrimitiveSuccess ==
  /\ \A t \in Threads :
       XnuSandboxState[t].sandbox_active =>
         available /\ hist[t].activations >= 1
  /\ (ret.op # "none" /\ Post.sandbox_active /\ ~pre.sandbox_active) =>
       /\ ret.prim = "ok"
       /\ ret.rc = 0
       /\ ret.err = "none"
  /\ (ret.op # "none" /\ ret.prim # "ok") =>
       Post.sandbox_active = pre.sandbox_active

C32_Witness ==
  /\ program = "design"
  /\ IsLock
  /\ Post.sandbox_active
  /\ ~pre.sandbox_active
  /\ ret.prim = "ok"
  /\ hist[1].first.set
  /\ hist[1].first.rc = -1
  /\ hist[1].activations = 1

\* npaths of a struct; the C file's struct has no table
NumRules(s) == IF "paths" \in DOMAIN s THEN npaths(s) ELSE 0

\* C33: over every call pledge_called, unveil_locked and sandbox_active
\* never go from true to false and npaths never decreases.
C33_OnlyForward ==
  [][\A t \in Threads :
       /\ XnuSandboxState[t].pledge_called =>
            XnuSandboxState'[t].pledge_called
       /\ Locked(XnuSandboxState[t]) => Locked(XnuSandboxState'[t])
       /\ XnuSandboxState[t].sandbox_active =>
            XnuSandboxState'[t].sandbox_active
       /\ NumRules(XnuSandboxState'[t]) >= NumRules(XnuSandboxState[t])]_vars

\* a locked state where the primitive has failed and a further call was
\* made
C33_Witness ==
  /\ program = "design"
  /\ ret.op # "none"
  /\ pre.unveil_locked
  /\ ~pre.sandbox_active
  /\ npaths(pre) > 0
  /\ hist[1].first.set
  /\ hist[1].first.rc = -1
  /\ Post.unveil_locked
  /\ npaths(Post) = npaths(pre)

\* the last call was unveil(path, permissions) with both given
IsStoreUnveil ==
  /\ ret.op = "unveil"
  /\ ~ret.arg[1].null
  /\ ~ret.arg[2].null

\* C34: an unveil(path, permissions) that returns 0 adds one rule at the
\* end of the table, keeps the earlier rules in their order, changes no
\* other field and does not call the primitive.
C34_SuccessAppendsOneRule ==
  (program = "design" /\ IsStoreUnveil /\ ret.rc = 0) =>
    /\ npaths(Post) = npaths(pre) + 1
    /\ SubSeq(Post.paths, 1, npaths(pre)) = pre.paths
    /\ Post = [pre EXCEPT !.paths = Post.paths]
    /\ ret.applies = 0
    /\ ~ret.invoked

C34_Witness ==
  /\ program = "design"
  /\ IsStoreUnveil
  /\ ret.rc = 0
  /\ npaths(pre) = 1
  /\ pre.pledge_called
  /\ Post.paths[2] # Post.paths[1]
  /\ Post.paths[1] = pre.paths[1]

\* C35: an unveil(path, permissions) that returns an error (invalid
\* argument, locked, table full, or no working directory for a relative
\* path) leaves the rule table and its count as they were.
C35_ErrorLeavesTable ==
  (program = "design" /\ IsStoreUnveil /\ ret.rc # 0) =>
    /\ Post.paths = pre.paths
    /\ npaths(Post) = npaths(pre)

\* a stored path that begins with "/"
IsAbsolute(p) == p # <<>> /\ Head(p) = "/"

\* C36: every rule in the table has an absolute path.
C36_StoredPathsAbsolute ==
  program = "design" =>
    \A t \in Contexts : \A i \in 1..npaths(XnuSandboxState[t]) :
      IsAbsolute(XnuSandboxState[t].paths[i].path)

\* the characters of a string, as a set
Chars(str) == {str[i] : i \in 1..Len(str)}

\* C37: the rule stored by a successful unveil(path, permissions) grants
\* exactly the permissions named in the string, whatever its length and
\* however often a character is repeated.
C37_StoredPermsAreTheStringsChars ==
  (program = "design" /\ IsStoreUnveil /\ ret.rc = 0) =>
    Chars(Post.paths[npaths(Post)].perms) = Chars(ret.arg[2].s)

\* the last call ran apply_sandbox_xnu and the primitive refused the profile
PrimitiveFailed(r) == r.op # "none" /\ r.prim \in {"fail_msg", "fail_nomsg"}

StdioProfile ==
  <<Frag("header_stdio"), Frag("stdio_min"), Frag("syscalls_min"),
    Frag("memory_min")>>

====
